---- MODULE Spec2Model ----
(***************************************************************************)
(* Model of backend/models/schema.py: the ten pydantic record types, their *)
(* field declarations (required / default / default_factory), the three    *)
(* str-enums, and the three example payloads.  Construction of a record    *)
(* (BaseModel.__init__) is modelled field by field, in declaration order,  *)
(* as pydantic runs it: a supplied value is validated and converted to the *)
(* declared type, an omitted field takes its default or is reported as     *)
(* missing, and the record is returned only when no field failed.          *)
(*                                                                         *)
(* The file imports pydantic without pinning a version; the declarations   *)
(* are valid under pydantic 1.x and 2.x, which differ in a few lax-mode    *)
(* conversions.  The installed major version is a variable chosen in Init. *)
(***************************************************************************)
EXTENDS Integers, Sequences, FiniteSets, TLC

VARIABLES
    pydantic,   \* major version of the installed pydantic: 1 or 2
    now,        \* the value datetime.utcnow() returns at this moment
    lists,      \* heap of list objects: ref -> [live, items]
    records,    \* heap of model instances: ref -> [live, type, fields]
    local,      \* per caller: the construction in progress (the call frame)
    seen,       \* per caller: clock values that occurred during the construction in progress
    outcome     \* per caller: what its last finished call gave it (instance or error),
                \* with the call's arguments and the clock values that occurred during it

vars == <<pydantic, now, lists, records, local, seen, outcome>>

----------------------------------------------------------------------------
(* Bounds of the model.                                                    *)

MaxClock   == 1     \* the clock takes the values 0..MaxClock
MaxRecords == 2     \* model instances alive at once (SpecHeld, SpecReminder, SpecConc)
MaxLen     == 1     \* longest list an append is made to: Len < MaxLen (SpecHeld)
NumCallers == 2     \* callers constructing concurrently (SpecConc)

Callers     == 1..NumCallers
ClockValues == 0..MaxClock
RecordRefs  == 1..MaxRecords
ListRefs    == 1..MaxRecords   \* every construction allocates at most one list

----------------------------------------------------------------------------
(* Python values.  One record shape for every value, so that values of     *)
(* different Python types can be compared: t is the Python type (for an    *)
(* enum member, the enum class), s the string payload, n the numeric       *)
(* payload (a float is kept in tenths, a datetime in seconds since the     *)
(* epoch, a bool as 0/1, a list reference as its heap index), items the    *)
(* elements of a list or the key/value strings of a dict.                  *)

Val(t, s, n, items) == [t |-> t, s |-> s, n |-> n, items |-> items]

NoneV           == Val("none", "", 0, <<>>)
PyStr(s)        == Val("str", s, 0, <<>>)
PyInt(n)        == Val("int", "", n, <<>>)
PyFloat(tenths) == Val("float", "", tenths, <<>>)
PyBool(b)       == Val("bool", "", IF b THEN 1 ELSE 0, <<>>)
DT(secs)        == Val("datetime", "", secs, <<>>)
Member(cls, s)  == Val(cls, s, 0, <<>>)
ListLit(items)  == Val("list", "", 0, items)
DictLit(items)  == Val("dict", "", 0, items)
ListRef(ref)    == Val("listref", "", ref, <<>>)

----------------------------------------------------------------------------
(* The enumerations.                                                       *)

MessageType    == {"text", "document", "image", "link", "reminder", "question"}
ContentType    == {"note", "document", "task", "reminder", "summary"}
ReminderStatus == {"pending", "completed", "cancelled"}

EnumClasses == {"MessageType", "ContentType", "ReminderStatus"}

EnumValues(cls) ==
    CASE cls = "MessageType"    -> MessageType
      [] cls = "ContentType"    -> ContentType
      [] cls = "ReminderStatus" -> ReminderStatus

----------------------------------------------------------------------------
(* Field declarations.  ty: the annotation (k the base type, opt TRUE for  *)
(* Optional[...], of the enum class or the element type of a list).        *)
(* dflt.k: "required" for Field(...), "value" for Field(default=v) or      *)
(* Field(None), "factory" for Field(default_factory=f).                    *)

Ty(k, opt, of) == [k |-> k, opt |-> opt, of |-> of]

TStr        == Ty("str", FALSE, "")
TOptStr     == Ty("str", TRUE, "")
TInt        == Ty("int", FALSE, "")
TFloat      == Ty("float", FALSE, "")
TBool       == Ty("bool", FALSE, "")
TDatetime   == Ty("datetime", FALSE, "")
TOptDT      == Ty("datetime", TRUE, "")
TEnum(cls)  == Ty("enum", FALSE, cls)
TListStr    == Ty("list", FALSE, "str")
TOptListFlt == Ty("list", TRUE, "float")
TDict       == Ty("dict", FALSE, "")

Required(name, ty)   == [name |-> name, ty |-> ty, dflt |-> [k |-> "required", v |-> NoneV, f |-> ""]]
Default(name, ty, v) == [name |-> name, ty |-> ty, dflt |-> [k |-> "value", v |-> v, f |-> ""]]
Factory(name, ty, f) == [name |-> name, ty |-> ty, dflt |-> [k |-> "factory", v |-> NoneV, f |-> f]]

\* Variant: message_type annotated str, as ChatResponse.message_type is.
WhatsAppMessageFields_PlainStr == <<
    Required("from_number", TStr),
    Required("to_number", TStr),
    Required("body", TStr),
    Default("message_type", TStr, PyStr("text")),
    Default("media_url", TOptStr, NoneV),
    Factory("timestamp", TDatetime, "utcnow") >>

WhatsAppMessageFields == <<
    Required("from_number", TStr),
    Required("to_number", TStr),
    Required("body", TStr),
    Default("message_type", TEnum("MessageType"), Member("MessageType", "text")),
    Default("media_url", TOptStr, NoneV),
    Factory("timestamp", TDatetime, "utcnow") >>

\* Variant: updated_at = Field(default=datetime.utcnow()), evaluated once
\* when the module is imported (time 0).
ProcessedContentFields_ImportStamp == <<
    Required("user_id", TStr),
    Required("content_type", TEnum("ContentType")),
    Required("title", TStr),
    Required("content", TStr),
    Default("summary", TOptStr, NoneV),
    Factory("tags", TListStr, "list"),
    Factory("metadata", TDict, "dict"),
    Factory("created_at", TDatetime, "utcnow"),
    Default("updated_at", TDatetime, DT(0)) >>

ProcessedContentFields == <<
    Required("user_id", TStr),
    Required("content_type", TEnum("ContentType")),
    Required("title", TStr),
    Required("content", TStr),
    Default("summary", TOptStr, NoneV),
    Factory("tags", TListStr, "list"),
    Factory("metadata", TDict, "dict"),
    Factory("created_at", TDatetime, "utcnow"),
    Factory("updated_at", TDatetime, "utcnow") >>

TaskItemFields == <<
    Required("task_id", TStr),
    Required("user_id", TStr),
    Required("title", TStr),
    Required("description", TStr),
    Default("priority", TStr, PyStr("medium")),
    Default("due_date", TOptDT, NoneV),
    Default("completed", TBool, PyBool(FALSE)),
    Factory("created_at", TDatetime, "utcnow") >>

\* Variant: scheduled_time: Optional[datetime] = Field(None), as TaskItem.due_date is.
ReminderItemFields_OptionalTime == <<
    Required("reminder_id", TStr),
    Required("user_id", TStr),
    Required("title", TStr),
    Required("message", TStr),
    Default("scheduled_time", TOptDT, NoneV),
    Default("status", TEnum("ReminderStatus"), Member("ReminderStatus", "pending")),
    Factory("created_at", TDatetime, "utcnow") >>

ReminderItemFields == <<
    Required("reminder_id", TStr),
    Required("user_id", TStr),
    Required("title", TStr),
    Required("message", TStr),
    Required("scheduled_time", TDatetime),
    Default("status", TEnum("ReminderStatus"), Member("ReminderStatus", "pending")),
    Factory("created_at", TDatetime, "utcnow") >>

SummaryRequestFields == <<
    Required("content", TStr),
    Default("summary_type", TStr, PyStr("concise")),
    Default("max_length", TInt, PyInt(200)) >>

SummaryResponseFields == <<
    Required("summary", TStr),
    Factory("key_points", TListStr, "list"),
    Required("word_count", TInt) >>

QuestionRequestFields == <<
    Required("question", TStr),
    Required("user_id", TStr),
    Default("context_limit", TInt, PyInt(5)) >>

\* Variant: confidence defaults to 1.0.
QuestionResponseFields_ConfidenceOne == <<
    Required("answer", TStr),
    Factory("sources", TListStr, "list"),
    Default("confidence", TFloat, PyFloat(10)) >>

QuestionResponseFields == <<
    Required("answer", TStr),
    Factory("sources", TListStr, "list"),
    Default("confidence", TFloat, PyFloat(0)) >>

VectorDocumentFields == <<
    Required("doc_id", TStr),
    Required("user_id", TStr),
    Required("content", TStr),
    Factory("metadata", TDict, "dict"),
    Default("embedding", TOptListFlt, NoneV),
    Factory("created_at", TDatetime, "utcnow") >>

ChatResponseFields == <<
    Required("message", TStr),
    Default("message_type", TStr, PyStr("text")),
    Factory("actions", TListStr, "list") >>

RecordTypes == {"WhatsAppMessage", "ProcessedContent", "TaskItem", "ReminderItem",
                "SummaryRequest", "SummaryResponse", "QuestionRequest",
                "QuestionResponse", "VectorDocument", "ChatResponse"}

Fields(type) ==
    CASE type = "WhatsAppMessage"  -> WhatsAppMessageFields
      [] type = "ProcessedContent" -> ProcessedContentFields
      [] type = "TaskItem"         -> TaskItemFields
      [] type = "ReminderItem"     -> ReminderItemFields
      [] type = "SummaryRequest"   -> SummaryRequestFields
      [] type = "SummaryResponse"  -> SummaryResponseFields
      [] type = "QuestionRequest"  -> QuestionRequestFields
      [] type = "QuestionResponse" -> QuestionResponseFields
      [] type = "VectorDocument"   -> VectorDocumentFields
      [] type = "ChatResponse"     -> ChatResponseFields

FieldNames(type) == {Fields(type)[i].name : i \in DOMAIN Fields(type)}

Decl(type, name) ==
    Fields(type)[CHOOSE i \in DOMAIN Fields(type) : Fields(type)[i].name = name]

----------------------------------------------------------------------------
(* The example payloads.                                                   *)

EXAMPLE_WHATSAPP_MESSAGE ==
    [from_number  |-> PyStr("whatsapp:+1234567890"),
     to_number    |-> PyStr("whatsapp:+14155238886"),
     body         |-> PyStr("Please summarize this document and remind me to review it tomorrow at 2pm"),
     message_type |-> PyStr("text"),
     timestamp    |-> PyStr("2025-06-29T10:00:00Z")]

EXAMPLE_PROCESSED_CONTENT ==
    [user_id      |-> PyStr("user_123"),
     content_type |-> PyStr("document"),
     title        |-> PyStr("Meeting Notes - Q2 Planning"),
     content      |-> PyStr("Discussion about quarterly goals and objectives..."),
     summary      |-> PyStr("Key points from Q2 planning meeting covering goals, timelines, and resource allocation."),
     tags         |-> ListLit(<<PyStr("meeting"), PyStr("planning"), PyStr("Q2")>>),
     metadata     |-> DictLit(<<PyStr("source"), PyStr("whatsapp"), PyStr("file_type"), PyStr("pdf")>>)]

EXAMPLE_TASK_EXTRACTION ==
    [tasks |-> <<
        [task_id     |-> PyStr("task_001"),
         user_id     |-> PyStr("user_123"),
         title       |-> PyStr("Review quarterly report"),
         description |-> PyStr("Review and provide feedback on Q2 report"),
         priority    |-> PyStr("high"),
         due_date    |-> PyStr("2025-07-01T14:00:00Z")] >>,
     reminders |-> <<
        [reminder_id    |-> PyStr("rem_001"),
         user_id        |-> PyStr("user_123"),
         title          |-> PyStr("Document Review Reminder"),
         message        |-> PyStr("Don't forget to review the quarterly report"),
         scheduled_time |-> PyStr("2025-06-30T14:00:00Z")] >>]

----------------------------------------------------------------------------
(* pydantic's conversion of a supplied value to the declared type (lax     *)
(* mode, the default of BaseModel).  str(n) and int(s) are computed on the *)
(* decimal numerals; a float is written with one decimal, as Python        *)
(* writes 1.5 and 0.0.                                                     *)

Digit == <<"0", "1", "2", "3", "4", "5", "6", "7", "8", "9">>

RECURSIVE IntStr(_)
IntStr(n) == IF n < 10 THEN Digit[n + 1] ELSE IntStr(n \div 10) \o Digit[(n % 10) + 1]

FloatStr(tenths) == IntStr(tenths \div 10) \o "." \o IntStr(tenths % 10)

NumeralRange == 0..200
TenthsRange  == 0..20

Numerals == [n \in NumeralRange |-> IntStr(n)]
Decimals == [t \in TenthsRange |-> FloatStr(t)]

NumeralSet == {Numerals[n] : n \in NumeralRange}
DecimalSet == {Decimals[t] : t \in TenthsRange}

IsNumeral(s) == s \in NumeralSet
ParseInt(s)  == CHOOSE n \in NumeralRange : Numerals[n] = s
IsDecimal(s) == s \in DecimalSet
ParseDec(s)  == CHOOSE t \in TenthsRange : Decimals[t] = s

\* ISO 8601 strings the parser is applied to, with their instants (seconds
\* since the epoch, UTC).
IsoInstants ==
    [s \in {"2025-06-29T10:00:00Z", "2025-07-01T14:00:00Z", "2025-06-30T14:00:00Z"} |->
        CASE s = "2025-06-29T10:00:00Z" -> 1751191200
          [] s = "2025-07-01T14:00:00Z" -> 1751378400
          [] s = "2025-06-30T14:00:00Z" -> 1751292000]

TrueWords  == {"1", "on", "t", "true", "y", "yes"}
FalseWords == {"0", "off", "f", "false", "n", "no"}

Ok(v) == [ok |-> TRUE, v |-> v]
Fail  == [ok |-> FALSE, v |-> NoneV]

\* A str-mixin enum member is a str: validators of other types see its value.
AsPlain(v) == IF v.t \in EnumClasses THEN PyStr(v.s) ELSE v

CoerceStr(v, ver) ==
    CASE v.t = "str"                      -> Ok(v)
      [] v.t = "int" /\ ver = 1           -> Ok(PyStr(IntStr(v.n)))
      [] v.t = "float" /\ ver = 1         -> Ok(PyStr(FloatStr(v.n)))
      [] v.t = "bool" /\ ver = 1          -> Ok(PyStr(IF v.n = 1 THEN "True" ELSE "False"))
      [] OTHER                            -> Fail

CoerceInt(v, ver) ==
    CASE v.t = "int"                      -> Ok(v)
      [] v.t = "bool"                     -> Ok(PyInt(v.n))
      [] v.t = "float" /\ v.n % 10 = 0    -> Ok(PyInt(v.n \div 10))
      [] v.t = "float" /\ ver = 1         -> Ok(PyInt(v.n \div 10))
      [] v.t = "str" /\ IsNumeral(v.s)    -> Ok(PyInt(ParseInt(v.s)))
      [] OTHER                            -> Fail

CoerceFloat(v, ver) ==
    CASE v.t = "float"                    -> Ok(v)
      [] v.t \in {"int", "bool"}          -> Ok(PyFloat(v.n * 10))
      [] v.t = "str" /\ IsNumeral(v.s)    -> Ok(PyFloat(ParseInt(v.s) * 10))
      [] v.t = "str" /\ IsDecimal(v.s)    -> Ok(PyFloat(ParseDec(v.s)))
      [] OTHER                            -> Fail

CoerceBool(v, ver) ==
    CASE v.t = "bool"                             -> Ok(v)
      [] v.t = "int" /\ v.n \in {0, 1}            -> Ok(PyBool(v.n = 1))
      [] v.t = "float" /\ v.n \in {0, 10}         -> Ok(PyBool(v.n = 10))
      [] v.t = "str" /\ v.s \in TrueWords         -> Ok(PyBool(TRUE))
      [] v.t = "str" /\ v.s \in FalseWords        -> Ok(PyBool(FALSE))
      [] OTHER                                    -> Fail

\* Variant: strict mode, only a datetime instance is a datetime.
StrictDatetime(v, ver) ==
    IF v.t = "datetime" THEN Ok(v) ELSE Fail

CoerceDatetime(v, ver) ==
    CASE v.t = "datetime"                         -> Ok(v)
      [] v.t = "int"                              -> Ok(DT(v.n))
      [] v.t = "str" /\ v.s \in DOMAIN IsoInstants -> Ok(DT(IsoInstants[v.s]))
      [] OTHER                                    -> Fail

CoerceEnum(cls, v, ver) ==
    CASE v.t = cls /\ v.s \in EnumValues(cls)     -> Ok(v)
      [] v.t = "str" /\ v.s \in EnumValues(cls)   -> Ok(Member(cls, v.s))
      [] OTHER                                    -> Fail

CoerceDict(v, ver) ==
    IF v.t = "dict" THEN Ok(v) ELSE Fail

CoerceScalar(k, of, v, ver) ==
    CASE k = "str"      -> CoerceStr(AsPlain(v), ver)
      [] k = "int"      -> CoerceInt(AsPlain(v), ver)
      [] k = "float"    -> CoerceFloat(AsPlain(v), ver)
      [] k = "bool"     -> CoerceBool(AsPlain(v), ver)
      [] k = "datetime" -> CoerceDatetime(AsPlain(v), ver)
      [] k = "enum"     -> CoerceEnum(of, v, ver)
      [] k = "dict"     -> CoerceDict(v, ver)

\* List[X]: a list whose every element converts to X; the result is a new list.
CoerceList(of, v, ver) ==
    IF v.t # "list" THEN Fail
    ELSE LET each == [i \in DOMAIN v.items |-> CoerceScalar(of, "", v.items[i], ver)]
         IN  IF \A i \in DOMAIN each : each[i].ok
             THEN Ok(ListLit([i \in DOMAIN each |-> each[i].v]))
             ELSE Fail

\* Variant: construction without validation (model_construct): the value as supplied.
NoValidation(ty, v, ver) == Ok(v)

\* The validator of a field annotated ty, applied to a supplied value.
Coerce(ty, v, ver) ==
    IF v.t = "none" THEN (IF ty.opt THEN Ok(NoneV) ELSE Fail)
    ELSE IF ty.k = "list" THEN CoerceList(ty.of, v, ver)
    ELSE CoerceScalar(ty.k, ty.of, v, ver)

----------------------------------------------------------------------------
(* Input mappings (the keyword arguments of a constructor call).           *)

Put(m, k, v) == [x \in (DOMAIN m) \cup {k} |-> IF x = k THEN v ELSE m[x]]
Drop(m, k)   == [x \in (DOMAIN m) \ {k} |-> m[x]]
EmptyMap     == [x \in {} |-> NoneV]

\* A value of the declared type, as a caller holding well-typed data supplies it.
ValidValue(ty) ==
    CASE ty.k = "str"      -> PyStr("hello")
      [] ty.k = "int"      -> PyInt(7)
      [] ty.k = "float"    -> PyFloat(15)
      [] ty.k = "bool"     -> PyBool(TRUE)
      [] ty.k = "datetime" -> DT(5)
      [] ty.k = "dict"     -> DictLit(<<PyStr("source"), PyStr("whatsapp")>>)
      [] ty.k = "enum"     -> Member(ty.of, CHOOSE s \in EnumValues(ty.of) : s # "document")
      [] ty.k = "list"     -> ListLit(<<IF ty.of = "str" THEN PyStr("a") ELSE PyFloat(15)>>)

\* All required fields, well typed, every other field omitted.
BaseInput(type) ==
    LET req == {d \in {Fields(type)[i] : i \in DOMAIN Fields(type)} : d.dflt.k = "required"}
    IN  [n \in {d.name : d \in req} |-> ValidValue(Decl(type, n).ty)]

\* Every field supplied, well typed.
FullInput(type) == [n \in FieldNames(type) |-> ValidValue(Decl(type, n).ty)]

\* Values supplied in place of a well-typed one.
Probes == {
    PyStr("hello"), PyStr("200"), PyStr("1.5"), PyStr("true"),
    PyStr("text"), PyStr("document"), PyStr("completed"), PyStr("bogus"),
    PyStr("2025-06-29T10:00:00Z"),
    PyInt(1), PyInt(200), PyFloat(0), PyFloat(15), PyBool(TRUE), NoneV, DT(5),
    ListLit(<<PyStr("a"), PyStr("b")>>), ListLit(<<PyInt(1)>>),
    DictLit(<<PyStr("source"), PyStr("whatsapp")>>),
    Member("MessageType", "image"), Member("ContentType", "task"),
    Member("ReminderStatus", "cancelled") }

\* The probes applied to a field of type ty: all but the few conversions
\* on which the library's documentation is silent.
ProbesFor(ty) ==
    {p \in Probes :
        /\ ty.k = "enum" => p.t \notin (EnumClasses \ {ty.of})
        /\ ty.k = "datetime" => ~(p.t \in {"float", "bool"} \/ (p.t = "str" /\ IsNumeral(p.s)) \/ (p.t = "str" /\ IsDecimal(p.s)))}

Inputs(type) ==
    {BaseInput(type), FullInput(type), Put(BaseInput(type), "extra", PyStr("ignored"))}
    \cup {Drop(FullInput(type), n) : n \in FieldNames(type)}
    \cup {Drop(BaseInput(type), n) : n \in DOMAIN BaseInput(type)}
    \cup {Put(BaseInput(type), n, p) : <<n, p>> \in
            {<<m, q>> \in FieldNames(type) \X Probes : q \in ProbesFor(Decl(type, m).ty)}}

Examples ==
    {<<"WhatsAppMessage", EXAMPLE_WHATSAPP_MESSAGE>>,
     <<"ProcessedContent", EXAMPLE_PROCESSED_CONTENT>>}
    \cup {<<"TaskItem", EXAMPLE_TASK_EXTRACTION.tasks[i]>> : i \in DOMAIN EXAMPLE_TASK_EXTRACTION.tasks}
    \cup {<<"ReminderItem", EXAMPLE_TASK_EXTRACTION.reminders[i]>> :
            i \in DOMAIN EXAMPLE_TASK_EXTRACTION.reminders}

----------------------------------------------------------------------------
(* The heaps and the call frames.                                          *)

FreeList   == [live |-> FALSE, items |-> <<>>]
FreeRecord == [live |-> FALSE, type |-> "", fields |-> EmptyMap]
IdleFrame  == [pc |-> "idle", type |-> "", input |-> EmptyMap, idx |-> 0,
               vals |-> EmptyMap, errs |-> {}]
NoOutcome  == [kind |-> "none", ref |-> 0, type |-> "", input |-> EmptyMap, errs |-> {},
               seen |-> {}]

Live(heap) == {r \in DOMAIN heap : heap[r].live}
Running    == {c \in Callers : local[c].pc = "running"}

\* The list objects a field map refers to.
ListsOf(fields) == {fields[n].n : n \in {m \in DOMAIN fields : fields[m].t = "listref"}}

\* Variant: one list object shared by every construction.
SharedList(heap) == CHOOSE r \in DOMAIN heap : \A q \in DOMAIN heap : r <= q

\* list() and the list a validator builds are new objects: a reference no
\* live object has.
FreshList(heap) == CHOOSE r \in DOMAIN heap : ~heap[r].live /\ \A q \in DOMAIN heap : ~heap[q].live => r <= q

\* Variant: the class hands out one cached instance.
CachedInstance(heap) == CHOOSE r \in DOMAIN heap : \A q \in DOMAIN heap : r <= q

\* Instantiating the class gives a new object.
NewRecordRef(heap) == CHOOSE r \in DOMAIN heap : ~heap[r].live /\ \A q \in DOMAIN heap : ~heap[q].live => r <= q

\* What one field contributes: its validated supplied value, or its
\* default, or an error.  utcnow reads the clock at the moment of the call.
FieldResult(d, input, ver, clock) ==
    IF d.name \in DOMAIN input THEN Coerce(d.ty, input[d.name], ver)
    ELSE CASE d.dflt.k = "required" -> Fail
           [] d.dflt.k = "value"    -> Ok(d.dflt.v)
           [] d.dflt.k = "factory"  ->
                CASE d.dflt.f = "utcnow" -> Ok(DT(clock))
                  [] d.dflt.f = "list"   -> Ok(ListLit(<<>>))
                  [] d.dflt.f = "dict"   -> Ok(DictLit(<<>>))

\* Variant: the errors collected are not raised.
ErrorsIgnored(errs) == TRUE

\* A construction returns a record exactly when no field reported an error.
Succeeds(errs) == errs = {}

----------------------------------------------------------------------------
(* The operations.                                                         *)

Init ==
    /\ pydantic \in {1, 2}
    /\ now = 0
    /\ lists = [r \in ListRefs |-> FreeList]
    /\ records = [r \in RecordRefs |-> FreeRecord]
    /\ local = [c \in Callers |-> IdleFrame]
    /\ seen = [c \in Callers |-> {}]
    /\ outcome = [c \in Callers |-> NoOutcome]

\* Caller c calls the constructor of type with the keyword arguments input.
\* cap: the instances the caller's memory holds at once.  The caller has
\* handled the exception of its previous call, if it raised one.
CanBegin(c, cap) ==
    /\ local[c].pc = "idle"
    /\ outcome[c].kind # "error"
    /\ Cardinality(Live(records)) + Cardinality(Running) < cap

Begin(c, type, input, cap) ==
    /\ CanBegin(c, cap)
    /\ local' = [local EXCEPT ![c] = [pc |-> "running", type |-> type, input |-> input,
                                      idx |-> 1, vals |-> EmptyMap, errs |-> {}]]
    /\ seen' = [seen EXCEPT ![c] = {now}]
    /\ UNCHANGED <<pydantic, now, lists, records, outcome>>

\* The constructor handles its next declared field.
StepField(c) ==
    /\ local[c].pc = "running"
    /\ local[c].idx <= Len(Fields(local[c].type))
    /\ LET f == local[c]
           d == Fields(f.type)[f.idx]
           r == FieldResult(d, f.input, pydantic, now)
       IN  IF ~r.ok
           THEN /\ local' = [local EXCEPT ![c].errs = f.errs \cup {d.name}, ![c].idx = f.idx + 1]
                /\ UNCHANGED lists
           ELSE IF r.v.t = "list"
           THEN LET ref == FreshList(lists)
                IN  /\ lists' = [lists EXCEPT ![ref] = [live |-> TRUE, items |-> r.v.items]]
                    /\ local' = [local EXCEPT ![c].vals = Put(f.vals, d.name, ListRef(ref)),
                                              ![c].idx = f.idx + 1]
           ELSE /\ local' = [local EXCEPT ![c].vals = Put(f.vals, d.name, r.v), ![c].idx = f.idx + 1]
                /\ UNCHANGED lists
    /\ UNCHANGED <<pydantic, now, records, seen, outcome>>

\* Reference counting: a list that no live instance and no call frame
\* refers to is collected.
Collect(heap, recs, frames) ==
    [r \in DOMAIN heap |->
        IF \/ \E q \in Live(recs) : r \in ListsOf(recs[q].fields)
           \/ \E o \in Callers : r \in ListsOf(frames[o].vals)
        THEN heap[r] ELSE FreeList]

\* The constructor returns: the instance, or it raises ValidationError.
Return(c) ==
    /\ local[c].pc = "running"
    /\ local[c].idx > Len(Fields(local[c].type))
    /\ LET f == local[c]
       IN  IF Succeeds(f.errs)
           THEN LET ref == NewRecordRef(records)
                IN  /\ records' = [records EXCEPT ![ref] =
                            [live |-> TRUE, type |-> f.type, fields |-> f.vals]]
                    /\ outcome' = [outcome EXCEPT ![c] =
                            [kind |-> "record", ref |-> ref, type |-> f.type,
                             input |-> f.input, errs |-> {}, seen |-> seen[c]]]
           ELSE /\ outcome' = [outcome EXCEPT ![c] =
                            [kind |-> "error", ref |-> 0, type |-> f.type,
                             input |-> f.input, errs |-> f.errs, seen |-> seen[c]]]
                /\ UNCHANGED records
    /\ local' = [local EXCEPT ![c] = IdleFrame]
    /\ lists' = Collect(lists, records', local')
    /\ seen' = [seen EXCEPT ![c] = {}]
    /\ UNCHANGED <<pydantic, now>>

\* The holder of instance r drops it; the instance and its lists are collected.
Discard(r) ==
    /\ records[r].live
    /\ records' = [records EXCEPT ![r] = FreeRecord]
    /\ lists' = Collect(lists, records', local)
    /\ outcome' = [c \in Callers |-> IF outcome[c].ref = r THEN NoOutcome ELSE outcome[c]]
    /\ UNCHANGED <<pydantic, now, local, seen>>

\* Caller c has handled the ValidationError of its last call.
Forget(c) ==
    /\ outcome[c].kind = "error"
    /\ outcome' = [outcome EXCEPT ![c] = NoOutcome]
    /\ UNCHANGED <<pydantic, now, lists, records, local, seen>>

\* The holder of instance r appends to the list in its field name.
AppendTo(r, name) ==
    /\ records[r].live
    /\ name \in DOMAIN records[r].fields
    /\ records[r].fields[name].t = "listref"
    /\ LET ref == records[r].fields[name].n
       IN  /\ Len(lists[ref].items) < MaxLen
           /\ lists' = [lists EXCEPT ![ref].items = Append(@, PyStr("x"))]
    /\ UNCHANGED <<pydantic, now, records, local, seen, outcome>>

\* The system clock takes another value.
Tick ==
    /\ \E t \in ClockValues \ {now} : now' = t
    /\ seen' = [c \in Callers |-> IF local[c].pc = "running" THEN seen[c] \cup {now'} ELSE seen[c]]
    /\ UNCHANGED <<pydantic, lists, records, local, outcome>>

----------------------------------------------------------------------------
(* Spec: one caller, one instance held at a time, every type with every    *)
(* input of Inputs and the example payloads.                               *)

BeginAny ==
    /\ CanBegin(1, 1)
    /\ \E type \in RecordTypes : \E input \in Inputs(type) : Begin(1, type, input, 1)

BeginExample ==
    \E e \in Examples : Begin(1, e[1], e[2], 1)

Next ==
    \/ BeginAny
    \/ BeginExample
    \/ StepField(1)
    \/ Return(1)
    \/ \E r \in RecordRefs : Discard(r)
    \/ Forget(1)
    \/ Tick

Spec == Init /\ [][Next]_vars

----------------------------------------------------------------------------------------------------------------------------------------
(* SpecHeld: one caller constructs records one after another and holds up  *)
(* to MaxRecords of them, appending to their lists.  The run is short      *)
(* against the clock: utcnow gives the value it had at the start.          *)

ListFields == {"tags", "key_points", "sources", "actions"}

HeldCalls ==
    {<<"ProcessedContent", BaseInput("ProcessedContent")>>,
     <<"SummaryResponse", BaseInput("SummaryResponse")>>,
     <<"QuestionResponse", BaseInput("QuestionResponse")>>,
     <<"ChatResponse", BaseInput("ChatResponse")>>}

BeginHeld ==
    \E e \in HeldCalls : Begin(1, e[1], e[2], MaxRecords)

AppendAny ==
    \E r \in RecordRefs : \E name \in ListFields : AppendTo(r, name)

NextHeld ==
    \/ BeginHeld
    \/ StepField(1)
    \/ Return(1)
    \/ \E r \in RecordRefs : Discard(r)
    \/ AppendAny

SpecHeld == Init /\ [][NextHeld]_vars

----------------------------------------------------------------------------
(* SpecReminder: one caller constructs reminders one after another and     *)
(* holds up to MaxRecords of them, while the clock runs.                   *)

ReminderCalls ==
    {BaseInput("ReminderItem"),
     Put(BaseInput("ReminderItem"), "status", PyStr("completed")),
     Drop(BaseInput("ReminderItem"), "scheduled_time")}

BeginReminder ==
    \E input \in ReminderCalls : Begin(1, "ReminderItem", input, MaxRecords)

NextReminder ==
    \/ BeginReminder
    \/ StepField(1)
    \/ Return(1)
    \/ \E r \in RecordRefs : Discard(r)
    \/ Forget(1)
    \/ Tick

SpecReminder == Init /\ [][NextReminder]_vars

----------------------------------------------------------------------------
(* SpecConc: NumCallers callers construct concurrently, their field steps  *)
(* interleaved; up to MaxRecords instances are held.  The run is short     *)
(* against the clock.                                                      *)

ConcCalls ==
    {<<"QuestionResponse", Put(BaseInput("QuestionResponse"), "confidence", PyStr("hello"))>>,
     <<"ChatResponse", BaseInput("ChatResponse")>>,
     <<"ChatResponse", Put(BaseInput("ChatResponse"), "actions", ListLit(<<PyStr("a")>>))>>}

BeginConc(c) ==
    \E e \in ConcCalls : Begin(c, e[1], e[2], MaxRecords)

NextConc ==
    \/ \E c \in Callers : BeginConc(c)
    \/ \E c \in Callers : StepField(c)
    \/ \E c \in Callers : Return(c)
    \/ \E c \in Callers : Forget(c)
    \/ \E r \in RecordRefs : Discard(r)

SpecConc == Init /\ [][NextConc]_vars

----------------------------------------------------------------------------
(* What the specification documents, stated apart from the declarations    *)
(* above: the required fields, the defaults and the closed sets.           *)

DocRequired ==
    [type \in RecordTypes |->
        CASE type = "WhatsAppMessage"  -> {"from_number", "to_number", "body"}
          [] type = "ProcessedContent" -> {"user_id", "content_type", "title", "content"}
          [] type = "TaskItem"         -> {"task_id", "user_id", "title", "description"}
          [] type = "ReminderItem"     -> {"reminder_id", "user_id", "title", "message", "scheduled_time"}
          [] type = "SummaryRequest"   -> {"content"}
          [] type = "SummaryResponse"  -> {"summary", "word_count"}
          [] type = "QuestionRequest"  -> {"question", "user_id"}
          [] type = "QuestionResponse" -> {"answer"}
          [] type = "VectorDocument"   -> {"doc_id", "user_id", "content"}
          [] type = "ChatResponse"     -> {"message"}]

\* Defaults with a fixed value; a list or mapping default is given by its contents.
DocDefaults ==
    [type \in RecordTypes |->
        CASE type = "WhatsAppMessage"  -> [message_type |-> PyStr("text"), media_url |-> NoneV]
          [] type = "ProcessedContent" -> [summary |-> NoneV, tags |-> ListLit(<<>>), metadata |-> DictLit(<<>>)]
          [] type = "TaskItem"         -> [priority |-> PyStr("medium"), due_date |-> NoneV,
                                           completed |-> PyBool(FALSE)]
          [] type = "ReminderItem"     -> [status |-> PyStr("pending")]
          [] type = "SummaryRequest"   -> [summary_type |-> PyStr("concise"), max_length |-> PyInt(200)]
          [] type = "SummaryResponse"  -> [key_points |-> ListLit(<<>>)]
          [] type = "QuestionRequest"  -> [context_limit |-> PyInt(5)]
          [] type = "QuestionResponse" -> [sources |-> ListLit(<<>>), confidence |-> PyFloat(0)]
          [] type = "VectorDocument"   -> [metadata |-> DictLit(<<>>), embedding |-> NoneV]
          [] type = "ChatResponse"     -> [message_type |-> PyStr("text"), actions |-> ListLit(<<>>)]]

\* Defaults stamped with the time of construction.
DocStamped ==
    [type \in RecordTypes |->
        CASE type = "WhatsAppMessage"  -> {"timestamp"}
          [] type = "ProcessedContent" -> {"created_at", "updated_at"}
          [] type \in {"TaskItem", "ReminderItem", "VectorDocument"} -> {"created_at"}
          [] OTHER -> {}]

DocFields == [type \in RecordTypes |->
                DocRequired[type] \cup DOMAIN DocDefaults[type] \cup DocStamped[type]]

DocEnumFields ==
    [type \in RecordTypes |->
        CASE type = "WhatsAppMessage"  -> [message_type |-> "MessageType"]
          [] type = "ProcessedContent" -> [content_type |-> "ContentType"]
          [] type = "ReminderItem"     -> [status |-> "ReminderStatus"]
          [] OTHER -> EmptyMap]

DocEnumValues ==
    [cls \in EnumClasses |->
        CASE cls = "MessageType"    -> {"text", "document", "image", "link", "reminder", "question"}
          [] cls = "ContentType"    -> {"note", "document", "task", "reminder", "summary"}
          [] cls = "ReminderStatus" -> {"pending", "completed", "cancelled"}]

\* Python's ==: a str-enum member equals the string that is its value.
PyEq(a, b) ==
    IF a.t \in EnumClasses \cup {"str"} /\ b.t \in EnumClasses \cup {"str"}
    THEN a.s = b.s ELSE a = b

\* A field value as the holder reads it: a list by its contents.
ViewIn(heap, v) == IF v.t = "listref" THEN ListLit(heap[v.n].items) ELSE v
View(v) == ViewIn(lists, v)

Finished(c) == outcome[c].kind \in {"record", "error"}
Built(c)    == outcome[c].kind = "record"
Raised(c)   == outcome[c].kind = "error"
Got(c)      == records[outcome[c].ref].fields

----------------------------------------------------------------------------
\* C1: constructing a record from a mapping that omits a field documented
\* as required yields a validation error and no record.
C1_RequiredOmitted ==
    \A c \in Callers :
        (Finished(c) /\ DocRequired[outcome[c].type] \ DOMAIN outcome[c].input # {})
            => /\ Raised(c)
               /\ outcome[c].ref = 0
               /\ DocRequired[outcome[c].type] \ DOMAIN outcome[c].input \subseteq outcome[c].errs
               /\ Live(records) = {}

C1_Witness ==
    /\ Raised(1)
    /\ outcome[1].type = "ReminderItem"
    /\ outcome[1].input = Drop(BaseInput("ReminderItem"), "scheduled_time")
    /\ outcome[1].errs = {"scheduled_time"}

\* C2: with every required field present and valid, construction succeeds
\* and each omitted optional field holds its documented default.
C2_Defaults ==
    \A c \in Callers :
        LET type == outcome[c].type
            inp  == outcome[c].input
        IN  /\ (Finished(c) /\ (inp = BaseInput(type) \/ \E n \in DOMAIN DocDefaults[type] \cup DocStamped[type] :
                                                            inp = Drop(FullInput(type), n)))
                    => Built(c)
            /\ Built(c) =>
                /\ \A n \in (DOMAIN DocDefaults[type]) \ DOMAIN inp :
                        /\ n \in DOMAIN Got(c)
                        /\ PyEq(View(Got(c)[n]), DocDefaults[type][n])
                /\ \A n \in DocStamped[type] \ DOMAIN inp :
                        /\ n \in DOMAIN Got(c)
                        /\ Got(c)[n].t = "datetime"

C2_Witness ==
    /\ Built(1)
    /\ outcome[1].type = "QuestionResponse"
    /\ outcome[1].input = BaseInput("QuestionResponse")
    /\ View(Got(1)["sources"]) = ListLit(<<>>)
    /\ Got(1)["confidence"] = PyFloat(0)

\* C3: an enumerated field rejects every value outside its closed set, and
\* accepts every declared member, which the record then holds unchanged.
DenotesMember(cls, v) == v.t \in {"str", cls} /\ v.s \in DocEnumValues[cls]

C3_Enums ==
    \A c \in Callers :
        LET type == outcome[c].type
            inp  == outcome[c].input
        IN  Finished(c) =>
                \A n \in (DOMAIN DocEnumFields[type]) \cap DOMAIN inp :
                    LET cls == DocEnumFields[type][n]
                    IN  /\ ~DenotesMember(cls, inp[n]) => (Raised(c) /\ n \in outcome[c].errs)
                        /\ DenotesMember(cls, inp[n]) =>
                                /\ n \notin outcome[c].errs
                                /\ inp = Put(BaseInput(type), n, inp[n]) => Built(c)
                                /\ Built(c) => (Got(c)[n].t = cls /\ PyEq(Got(c)[n], inp[n]))

C3_Witness ==
    /\ Raised(1)
    /\ outcome[1].type = "WhatsAppMessage"
    /\ outcome[1].input = Put(BaseInput("WhatsAppMessage"), "message_type", PyStr("bogus"))
    /\ outcome[1].errs = {"message_type"}

\* C5: construction is atomic: a call that returns gives a record holding
\* every declared field; a call that raises gives no record; no instance
\* with a missing field is ever among the live ones.
Populated(type, fields) ==
    /\ DOMAIN fields = DocFields[type]
    /\ \A n \in DOMAIN fields :
            \/ fields[n].t # "none"
            \/ n \in DOMAIN DocDefaults[type] /\ DocDefaults[type][n] = NoneV

C5_Atomic ==
    /\ \A r \in Live(records) : Populated(records[r].type, records[r].fields)
    /\ \A c \in Callers :
        /\ Built(c) => /\ outcome[c].ref \in Live(records)
                       /\ records[outcome[c].ref].type = outcome[c].type
                       /\ outcome[c].errs = {}
        /\ Raised(c) => /\ outcome[c].ref = 0
                        /\ outcome[c].errs # {}
                        /\ Live(records) = {}
                        /\ Live(lists) = {}

C5_Witness ==
    /\ Raised(1)
    /\ outcome[1].type = "SummaryResponse"
    /\ outcome[1].input = Put(BaseInput("SummaryResponse"), "word_count", PyStr("hello"))
    /\ outcome[1].errs = {"word_count"}
    /\ Live(records) = {}

\* C6 as stated: a supplied value whose type is not the declared type of
\* its field always yields a validation error.
SameType(ty, v) ==
    \/ v.t = ty.k
    \/ ty.k = "enum" /\ v.t = ty.of
    \/ ty.opt /\ v.t = "none"

NumericText  == {"200", "1.5"}
IntegralText == {"200"}
BooleanText  == {"true"}
InstantText  == {"2025-06-29T10:00:00Z", "2025-06-30T14:00:00Z", "2025-07-01T14:00:00Z"}
Containers   == {"list", "dict"}

Inconvertible(ty, v) ==
    \/ v.t = "none" /\ ~ty.opt
    \/ ty.k = "str" /\ v.t \in Containers \cup {"datetime"}
    \/ ty.k = "int" /\ (v.t \in Containers \cup {"datetime"} \/ (v.t = "str" /\ v.s \notin IntegralText))
    \/ ty.k = "float" /\ (v.t \in Containers \cup {"datetime"} \/ (v.t = "str" /\ v.s \notin NumericText))
    \/ ty.k = "bool" /\ (v.t \in Containers \cup {"datetime"} \/ (v.t = "str" /\ v.s \notin BooleanText))
    \/ ty.k = "datetime" /\ (v.t \in Containers \/ (v.t = "str" /\ v.s \notin InstantText))
    \/ ty.k = "enum" /\ ~DenotesMember(ty.of, v)
    \/ ty.k = "list" /\ v.t \notin {"list", "none"}
    \/ ty.k = "dict" /\ v.t \notin {"dict", "none"}

BothStamped(c) ==
    /\ Built(c)
    /\ outcome[c].type = "ProcessedContent"
    /\ "created_at" \notin DOMAIN outcome[c].input
    /\ "updated_at" \notin DOMAIN outcome[c].input

C7_StampsEqual ==
    \A c \in Callers : BothStamped(c) => Got(c)["created_at"] = Got(c)["updated_at"]

\* C7 amended: each of created_at and updated_at holds a value the clock
\* showed during that construction, so the two are equal whenever the clock
\* showed a single value throughout it.
C7_StampsDuringConstruction ==
    \A c \in Callers :
        BothStamped(c) =>
            /\ \E t \in outcome[c].seen : Got(c)["created_at"] = DT(t)
            /\ \E t \in outcome[c].seen : Got(c)["updated_at"] = DT(t)
            /\ Cardinality(outcome[c].seen) = 1 => Got(c)["created_at"] = Got(c)["updated_at"]

C7_Witness ==
    /\ BothStamped(1)
    /\ Got(1)["created_at"] # Got(1)["updated_at"]
    /\ Got(1)["created_at"].n \in outcome[1].seen
    /\ Got(1)["updated_at"].n \in outcome[1].seen

\* C10: each example payload holds every required field of the record it
\* illustrates, names members of the enums, and constructs without error.
C10_ExamplesValid ==
    /\ \A e \in Examples :
        /\ DocRequired[e[1]] \subseteq DOMAIN e[2]
        /\ \A n \in (DOMAIN DocEnumFields[e[1]]) \cap DOMAIN e[2] :
                e[2][n].s \in DocEnumValues[DocEnumFields[e[1]][n]]
    /\ \A c \in Callers :
        (Finished(c) /\ <<outcome[c].type, outcome[c].input>> \in Examples) => Built(c)

C10_Witness ==
    /\ Built(1)
    /\ outcome[1].type = "WhatsAppMessage"
    /\ outcome[1].input = EXAMPLE_WHATSAPP_MESSAGE
    /\ Got(1)["timestamp"] = DT(1751191200)
    /\ Got(1)["message_type"] = Member("MessageType", "text")

\* The contents of the lists an instance holds, field by field.
Contents(heap, fields) ==
    [n \in {m \in DOMAIN fields : fields[m].t = "listref"} |-> heap[fields[n].n].items]

\* C4: records built with a list field omitted hold distinct list
\* instances: a new record's default list is empty whatever was appended
\* to the others, and an append to one record's list leaves the list of
\* every other record as it was.
C4_FreshDefaultLists ==
    /\ [](\A r1 \in Live(records) : \A r2 \in Live(records) \ {r1} :
            ListsOf(records[r1].fields) \cap ListsOf(records[r2].fields) = {})
    /\ [][\A r \in Live(records) : \A q \in Live(records) \ {r} :
            Contents(lists', records'[r].fields) # Contents(lists, records[r].fields)
                => Contents(lists', records'[q].fields) = Contents(lists, records[q].fields)]_vars
    /\ [][\A c \in Callers :
            (outcome'[c] # outcome[c] /\ outcome'[c].kind = "record") =>
                /\ \A n \in (ListFields \cap DocFields[outcome'[c].type]) \ DOMAIN outcome'[c].input :
                        Contents(lists', records'[outcome'[c].ref].fields)[n] = <<>>
                /\ \A q \in Live(records) :
                        Contents(lists', records'[q].fields) = Contents(lists, records[q].fields)]_vars

C4_Witness ==
    /\ Live(records) = {1, 2}
    /\ records[1].type = "ProcessedContent"
    /\ records[2].type = "ProcessedContent"
    /\ View(records[1].fields["tags"]) = ListLit(<<PyStr("x")>>)
    /\ View(records[2].fields["tags"]) = ListLit(<<>>)
    /\ outcome[1].ref = 2

\* What a call gives when it runs alone: every field by itself.
SoloErrs(type, input, ver) ==
    {Fields(type)[i].name : i \in {j \in DOMAIN Fields(type) :
                                        ~FieldResult(Fields(type)[j], input, ver, 0).ok}}
SoloVals(type, input, ver) ==
    [n \in FieldNames(type) \ SoloErrs(type, input, ver) |->
        FieldResult(Decl(type, n), input, ver, 0).v]

\* C8: whatever the interleaving, a call gives its caller what it gives
\* when run alone (timestamps apart), and no step of a construction changes
\* an instance returned earlier.
C8_NoInterference ==
    [][\A c \in Callers :
        /\ (local[c].pc = "running" /\ local'[c].pc = "idle") =>
            LET f    == local[c]
                o    == outcome'[c]
                errs == SoloErrs(f.type, f.input, pydantic)
                vals == SoloVals(f.type, f.input, pydantic)
            IN  /\ o.type = f.type /\ o.input = f.input
                /\ errs # {} => (o.kind = "error" /\ o.errs = errs /\ records' = records)
                /\ errs = {} =>
                    /\ o.kind = "record"
                    /\ o.ref \notin Live(records)
                    /\ records'[o.ref].type = f.type
                    /\ DOMAIN records'[o.ref].fields = DOMAIN vals
                    /\ \A n \in {m \in DOMAIN vals : Decl(f.type, m).ty.k # "datetime"} :
                            ViewIn(lists', records'[o.ref].fields[n]) = vals[n]
        /\ local'[c] # local[c] =>
            \A r \in Live(records) :
                /\ records'[r] = records[r]
                /\ Contents(lists', records'[r].fields) = Contents(lists, records[r].fields)]_vars

C8_Witness ==
    /\ Built(2)
    /\ outcome[2].type = "ChatResponse"
    /\ local[1].pc = "running"
    /\ local[1].type = "QuestionResponse"
    /\ local[1].idx = 3
    /\ ListsOf(local[1].vals) # {}
    /\ ListsOf(local[1].vals) \cap ListsOf(Got(2)) = {}

\* C9: no operation changes the status of a ReminderItem once built: it is
\* pending when omitted, the supplied member otherwise, and stays so.
C9_StatusKept ==
    /\ [](\A c \in Callers :
            (Built(c) /\ outcome[c].type = "ReminderItem") =>
                /\ Got(c)["status"].t = "ReminderStatus"
                /\ PyEq(Got(c)["status"],
                        IF "status" \in DOMAIN outcome[c].input
                        THEN outcome[c].input["status"] ELSE PyStr("pending")))
    /\ [][\A r \in RecordRefs :
            (records[r].live /\ records[r].type = "ReminderItem" /\ records'[r].live) =>
                /\ records'[r].type = "ReminderItem"
                /\ records'[r].fields["status"] = records[r].fields["status"]]_vars

C9_Witness ==
    /\ Live(records) = {1, 2}
    /\ records[1].type = "ReminderItem"
    /\ records[1].fields["status"] = Member("ReminderStatus", "pending")
    /\ records[2].type = "ReminderItem"
    /\ records[2].fields["status"] = Member("ReminderStatus", "completed")
    /\ outcome[1].ref = 2

====
